---- MODULE Spec2Model ----
(***************************************************************************)
(* Verification model of three pieces of the sovereign-sdk tree:           *)
(*   - adapters/solana/da_client  simple_tcp_client.rs : the receive loop   *)
(*     that decodes Updates and verifies their account-delta proofs,       *)
(*     together with the proof verifier it calls (account_proof_geyser),   *)
(*   - utils/block-explorer-backend db.rs : WhereClausesBuilder and the     *)
(*     chain-head table,                                                   *)
(*   - module-system sov-chain-state call.rs : the slot-height counter.     *)
(* Each piece has its own specification over the shared variables; the    *)
(* variables of the other pieces stay at their idle values.                *)
(***************************************************************************)
EXTENDS Integers, Sequences, FiniteSets, TLC

VARIABLES
    \* --- simple_tcp_client.rs ---
    wire,              \* bytes written by the peer and not yet read
    wireLens,          \* lengths of the messages in wire (the first: what is left of it)
    midMsg,            \* the first message of wire has been read in part
    closed,            \* the peer has closed the connection
    chunk,             \* buffer[..n] of the latest read
    lastWhole,         \* the latest read returned exactly one whole message
    anyFailed,         \* some proof verification has failed since the start
    pc,                \* position of main: "read", "verify", "exit"
    cur,               \* received_update of the latest successful decode
    idx,               \* position of the for loop over bankhash_proof.proofs
    out,               \* lines printed for cur, one per verified proof
    bankhash_checks,   \* calls handing the bank-hash inputs to the verifier, for cur
    exit,              \* result of main: "running", "Ok", "ErrIo", "ErrDecode", "ErrVerify"
    \* --- account-delta proof verification ---
    mk_tree,           \* the sorted account records of one slot's delta
    mk_key,            \* the queried pubkey
    mk_out,            \* result of the latest verification
    \* --- db.rs ---
    query,             \* text pushed to the QueryBuilder, as tokens
    where_used_already,
    conds,             \* arguments of the push_condition calls so far
    rows,              \* table indexing_status
    inserted,          \* blobs passed to insert_chain_head, in call order
    head_result,       \* value returned by the latest chain_head call, and the
                       \* number of insert_chain_head calls before it
    \* --- call.rs ---
    slot_height,       \* StateValue<u64>: <<>> when never set, <<h>> when set to h
    historical_transitions,
    h0,                \* slot height after genesis
    nInc,              \* completed increment_slot_height calls
    panicked           \* an expect() failed

tcpVars == <<wire, wireLens, midMsg, closed, chunk, lastWhole, anyFailed, pc, cur,
             idx, out, bankhash_checks, exit>>
mkVars == <<mk_tree, mk_key, mk_out>>
dbVars == <<query, where_used_already, conds, rows, inserted, head_result>>
csVars == <<slot_height, historical_transitions, h0, nInc, panicked>>
vars == <<tcpVars, mkVars, dbVars, csVars>>

----------------------------------------------------------------------------
(* Bounds of the model *)

\* largest pubkey of the key space
MaxKey == 5
\* largest number of leaves of a delta tree
MaxLeaves == 4
\* largest number of proofs in the batch of one Update
MaxProofs == 2
\* largest number of bytes in flight between the peer and the client
MaxWire == 15
\* largest number of tokens pushed to one query
MaxQueryLen == 8
\* largest number of rows of indexing_status
MaxRows == 4
\* largest slot height set at genesis
MaxGenesis == 2
\* largest number of increment_slot_height calls
MaxInc == 3
\* largest height a state transition is stored at
MaxStoreHeight == 2

----------------------------------------------------------------------------
(* Generic helpers *)

Min(a, b) == IF a < b THEN a ELSE b

Last(s) == s[Len(s)]

----------------------------------------------------------------------------
(* Digests.  A digest is a sequence of integers; the hash functions are    *)
(* modelled as injective constructors (collision freedom): a leaf digest   *)
(* is three positive numbers, an inner digest is 0 followed by its two     *)
(* children, so that every digest parses in exactly one way.               *)

\* Data { pubkey, hash, account }: the account record of a leaf
Data(pk, h) == [pubkey |-> pk, hash |-> h, account |-> pk]

\* H(pubkey || state-hash || metadata)
hash_leaf(d) == <<d.pubkey, d.hash, d.account>>

\* H(left || right), order sensitive
hash_pair(l, r) == <<0>> \o l \o r

\* the absent sibling of a node promoted to the next level
NoSibling == <<>>

\* one level up: consecutive pairs are combined, an odd last node is promoted
RECURSIVE NextLevel(_)
NextLevel(lv) ==
    IF Len(lv) = 0 THEN <<>>
    ELSE IF Len(lv) = 1 THEN lv
    ELSE <<hash_pair(lv[1], lv[2])>> \o NextLevel(SubSeq(lv, 3, Len(lv)))

\* root of the tree over the leaf digests lv (lv non-empty)
RECURSIVE RootOf(_)
RootOf(lv) == IF Len(lv) <= 1 THEN lv[1] ELSE RootOf(NextLevel(lv))

\* number of levels above the leaves of a tree of n leaves
RECURSIVE Height(_)
Height(n) == IF n <= 1 THEN 0 ELSE 1 + Height((n + 1) \div 2)

\* sibling path of the node at position j (1-based) of level lv, leaf first:
\* at each level the sibling digest (NoSibling for a promoted node) and the
\* position bit, the parity of the 0-based index, which halves each level up
RECURSIVE PathOf(_, _)
PathOf(lv, j) ==
    IF Len(lv) <= 1 THEN <<>>
    ELSE LET k == j - 1
             bit == k % 2
             sibPos == IF bit = 0 THEN j + 1 ELSE j - 1
             sib == IF sibPos <= Len(lv) THEN lv[sibPos] ELSE NoSibling
         IN <<[sib |-> sib, bit |-> bit]>> \o PathOf(NextLevel(lv), (k \div 2) + 1)

LeafDigests(t) == [i \in 1..Len(t) |-> hash_leaf(t[i])]

account_delta_root_of(t) == RootOf(LeafDigests(t))

Proof(t, i) == PathOf(LeafDigests(t), i)

----------------------------------------------------------------------------
(* The proof verifier (account_proof_geyser::utils).                       *)

\* digest after combining the leaf digest d with the first k entries of path p
RECURSIVE Running(_, _, _)
Running(d, p, k) ==
    IF k = 0 THEN d
    ELSE LET e == p[k]
             below == Running(d, p, k - 1)
         IN IF e.sib = NoSibling THEN below
            ELSE IF e.bit = 0 THEN hash_pair(below, e.sib)
            ELSE hash_pair(e.sib, below)

\* a verifier that ignores the position bits
RECURSIVE RunningUnordered(_, _, _)
RunningUnordered(d, p, k) ==
    IF k = 0 THEN d
    ELSE IF p[k].sib = NoSibling THEN RunningUnordered(d, p, k - 1)
    ELSE hash_pair(RunningUnordered(d, p, k - 1), p[k].sib)

MerklePathVerifierUnordered(d, p) == RunningUnordered(d, p, Len(p))

\* Merkle Path Verifier: the candidate root of a leaf digest and its sibling path
MerklePathVerifier(d, p) == Running(d, p, Len(p))

verify_proof(data, p, root) == MerklePathVerifier(hash_leaf(data), p) = root

\* 0-based leaf index encoded by the position bits of a path
RECURSIVE PathIndex(_)
PathIndex(p) == IF p = <<>> THEN 0 ELSE p[1].bit + 2 * PathIndex(Tail(p))

\* the two paths meet in a shared ancestor and agree from there upward
PathsAgreeAbove(dl, pl, dr, pr) ==
    /\ Len(pl) = Len(pr)
    /\ \E k \in 1..Len(pl) :
          /\ pl[k].bit = 0
          /\ pr[k].bit = 1
          /\ pl[k].sib = Running(hash_leaf(dr), pr, k - 1)
          /\ pr[k].sib = Running(hash_leaf(dl), pl, k - 1)
          /\ \A m \in (k + 1)..Len(pl) : pl[m] = pr[m]

\* a check that takes two valid paths as proof of adjacency
TreeAdjacentUnchecked(dl, pl, dr, pr) == Len(pl) = Len(pr)

\* the two bracketing leaves are neighbours in the tree
TreeAdjacent(dl, pl, dr, pr) ==
    /\ PathsAgreeAbove(dl, pl, dr, pr)
    /\ PathIndex(pr) = PathIndex(pl) + 1

\* AccountDeltaProof, as one record shape for the four variants
InclusionProof(pk, data, p) ==
    [variant |-> "InclusionProof", pubkey |-> pk, data |-> data, proof |-> p,
     data2 |-> data, proof2 |-> <<>>, leaves |-> <<>>]

NonInclusionProofInner(pk, dl, pl, dr, pr) ==
    [variant |-> "NonInclusionProofInner", pubkey |-> pk, data |-> dl, proof |-> pl,
     data2 |-> dr, proof2 |-> pr, leaves |-> <<>>]

NonInclusionProofLeft(pk, data, p) ==
    [variant |-> "NonInclusionProofLeft", pubkey |-> pk, data |-> data, proof |-> p,
     data2 |-> data, proof2 |-> <<>>, leaves |-> <<>>]

NonInclusionProofRight(pk, data, p, leaves) ==
    [variant |-> "NonInclusionProofRight", pubkey |-> pk, data |-> data, proof |-> p,
     data2 |-> data, proof2 |-> <<>>, leaves |-> leaves]

\* 4.2 on an inclusion proof
verify_inclusion(ap, root) ==
    IF ap.data.pubkey # ap.pubkey THEN "MalformedProof"
    ELSE IF ~verify_proof(ap.data, ap.proof, root) THEN "RootMismatch"
    ELSE "Ok"

\* 4.3 Inner: both bracketing leaves verify, are tree-adjacent, and bracket the key
verify_non_inclusion_inner(ap, root) ==
    IF ~(verify_proof(ap.data, ap.proof, root) /\ verify_proof(ap.data2, ap.proof2, root))
    THEN "RootMismatch"
    ELSE IF ~TreeAdjacent(ap.data, ap.proof, ap.data2, ap.proof2) THEN "OrderingViolation"
    ELSE IF ~(ap.data.pubkey < ap.pubkey /\ ap.pubkey < ap.data2.pubkey)
    THEN "OrderingViolation"
    ELSE "Ok"

\* 4.3 Left: the leaf verifies, every position bit is "left", the key sorts before it
verify_non_inclusion_left(ap, root) ==
    IF ~verify_proof(ap.data, ap.proof, root) THEN "RootMismatch"
    ELSE IF ~(\A k \in 1..Len(ap.proof) : ap.proof[k].bit = 0 /\ ap.proof[k].sib # NoSibling)
    THEN "OrderingViolation"
    ELSE IF ~(ap.pubkey < ap.data.pubkey) THEN "OrderingViolation"
    ELSE "Ok"

\* 4.3 Right: the leaf verifies, every existing position bit is "right", the
\* root recomputed from the full leaf list matches, the leaf is the last of
\* the list, and the key sorts after it
verify_non_inclusion_right(ap, root) ==
    IF ~verify_proof(ap.data, ap.proof, root) THEN "RootMismatch"
    ELSE IF ~(\A k \in 1..Len(ap.proof) :
                 ap.proof[k].sib # NoSibling => ap.proof[k].bit = 1)
    THEN "OrderingViolation"
    ELSE IF \/ ap.leaves = <<>>
            \/ Len(ap.proof) # Height(Len(ap.leaves))
            \/ RootOf(ap.leaves) # root
            \/ Last(ap.leaves) # hash_leaf(ap.data)
    THEN "SizeMismatch"
    ELSE IF ~(ap.pubkey > ap.data.pubkey) THEN "OrderingViolation"
    ELSE "Ok"

\* 4.5 routing of one proof by variant, against the shared delta root
verify_leaves(ap, root) ==
    CASE ap.variant = "InclusionProof" -> verify_inclusion(ap, root)
      [] ap.variant = "NonInclusionProofInner" -> verify_non_inclusion_inner(ap, root)
      [] ap.variant = "NonInclusionProofLeft" -> verify_non_inclusion_left(ap, root)
      [] OTHER -> verify_non_inclusion_right(ap, root)

----------------------------------------------------------------------------
(* Specification SpecMerkle: proofs built from a sorted tree are verified. *)

Keys == 1..MaxKey

\* the state hash of every honest account record
StateHash == 1

\* the records of the key set S, sorted by pubkey
RECURSIVE SortedTree(_)
SortedTree(S) ==
    IF S = {} THEN <<>>
    ELSE LET m == CHOOSE x \in S : \A y \in S : x <= y
         IN <<Data(m, StateHash)>> \o SortedTree(S \ {m})

Trees == {SortedTree(S) : S \in {X \in SUBSET Keys : X # {} /\ Cardinality(X) <= MaxLeaves}}

TreeKeys(t) == {t[i].pubkey : i \in 1..Len(t)}

NonInclusionVariants ==
    {"NonInclusionProofInner", "NonInclusionProofLeft", "NonInclusionProofRight"}

\* the witness of variant v for key pk taken from leaves i (and j) of tree t
WitnessFor(v, pk, t, i, j) ==
    CASE v = "NonInclusionProofInner" ->
            NonInclusionProofInner(pk, t[i], Proof(t, i), t[j], Proof(t, j))
      [] v = "NonInclusionProofLeft" -> NonInclusionProofLeft(pk, t[i], Proof(t, i))
      [] OTHER -> NonInclusionProofRight(pk, t[i], Proof(t, i), LeafDigests(t))

MkIdle == [kind |-> "none", i |-> 0, j |-> 0, candidate |-> <<>>, res |-> "none"]

TcpIdle ==
    /\ wire = <<>> /\ wireLens = <<>> /\ midMsg = FALSE /\ closed = FALSE
    /\ chunk = <<>> /\ lastWhole = FALSE /\ anyFailed = FALSE
    /\ pc = "idle" /\ cur = <<>> /\ idx = 0 /\ out = <<>>
    /\ bankhash_checks = 0 /\ exit = "idle"

DbIdle ==
    /\ query = <<>> /\ where_used_already = FALSE /\ conds = <<>>
    /\ rows = <<>> /\ inserted = <<>> /\ head_result = <<>>

CsIdle ==
    /\ slot_height = <<>> /\ historical_transitions = <<>> /\ h0 = <<>>
    /\ nInc = 0 /\ panicked = FALSE

MerkleInit ==
    /\ mk_tree \in Trees
    /\ mk_key \in Keys
    /\ mk_out = MkIdle
    /\ TcpIdle /\ DbIdle /\ CsIdle

\* an inclusion proof for leaf i of the tree is built and verified
VerifyInclusion ==
    \E i \in 1..Len(mk_tree) :
        LET ap == InclusionProof(mk_tree[i].pubkey, mk_tree[i], Proof(mk_tree, i))
        IN mk_out' = [kind |-> ap.variant, i |-> i, j |-> 0,
                      candidate |-> MerklePathVerifier(hash_leaf(ap.data), ap.proof),
                      res |-> verify_leaves(ap, account_delta_root_of(mk_tree))]
    /\ UNCHANGED <<mk_tree, mk_key, tcpVars, dbVars, csVars>>

\* Scenario B: the state hash of the proved record is altered in transit
VerifyTamperedInclusion ==
    \E i \in 1..Len(mk_tree) :
        LET d == Data(mk_tree[i].pubkey, StateHash + 1)
            ap == InclusionProof(d.pubkey, d, Proof(mk_tree, i))
        IN mk_out' = [kind |-> "Tampered", i |-> i, j |-> 0,
                      candidate |-> MerklePathVerifier(hash_leaf(ap.data), ap.proof),
                      res |-> verify_leaves(ap, account_delta_root_of(mk_tree))]
    /\ UNCHANGED <<mk_tree, mk_key, tcpVars, dbVars, csVars>>

\* a non-inclusion proof of variant v for the absent key is built from
\* leaves i (and j) of the tree and verified
VerifyNonInclusion ==
    /\ mk_key \notin TreeKeys(mk_tree)
    /\ \E v \in NonInclusionVariants, i \in 1..Len(mk_tree), j \in 1..Len(mk_tree) :
        /\ (v # "NonInclusionProofInner" => j = i)
        /\ LET ap == WitnessFor(v, mk_key, mk_tree, i, j)
           IN mk_out' = [kind |-> v, i |-> i, j |-> j,
                         candidate |-> MerklePathVerifier(hash_leaf(ap.data), ap.proof),
                         res |-> verify_leaves(ap, account_delta_root_of(mk_tree))]
    /\ UNCHANGED <<mk_tree, mk_key, tcpVars, dbVars, csVars>>

MerkleNext == VerifyInclusion \/ VerifyTamperedInclusion \/ VerifyNonInclusion

SpecMerkle == MerkleInit /\ [][MerkleNext]_vars

\* C6: for every record present in the tree, the Merkle path verifier applied
\* to its leaf digest and its sibling path reconstructs exactly the root of the
\* tree; with an empty sibling list the candidate root is the leaf digest.
C6_PathReconstructsRoot ==
    mk_out.kind = "InclusionProof" =>
        /\ mk_out.candidate = account_delta_root_of(mk_tree)
        /\ mk_out.res = "Ok"
        /\ (Proof(mk_tree, mk_out.i) = <<>> =>
               mk_out.candidate = hash_leaf(mk_tree[mk_out.i]))

C6_Witness ==
    /\ mk_out.kind = "InclusionProof"
    /\ Len(mk_tree) = 3
    /\ mk_out.i = 3
    /\ mk_out.res = "Ok"

C6_WitnessSingleLeaf ==
    /\ mk_out.kind = "InclusionProof"
    /\ Len(mk_tree) = 1
    /\ mk_out.candidate = hash_leaf(mk_tree[1])

\* the one correctly constructed witness for an absent key: variant and leaves
CorrectWitness(t, pk) ==
    IF pk < t[1].pubkey THEN [kind |-> "NonInclusionProofLeft", i |-> 1, j |-> 1]
    ELSE IF pk > Last(t).pubkey
    THEN [kind |-> "NonInclusionProofRight", i |-> Len(t), j |-> Len(t)]
    ELSE LET a == CHOOSE a \in 1..(Len(t) - 1) : t[a].pubkey < pk /\ pk < t[a + 1].pubkey
         IN [kind |-> "NonInclusionProofInner", i |-> a, j |-> a + 1]

\* the variants that accept some witness taken from the tree
AcceptingVariants(t, pk) ==
    {v \in NonInclusionVariants :
        \E i \in 1..Len(t), j \in 1..Len(t) :
            verify_leaves(WitnessFor(v, pk, t, i, j), account_delta_root_of(t)) = "Ok"}

\* C7: for every sorted tree and every pubkey absent from it, exactly one of
\* the Inner, Left and Right non-inclusion checks succeeds, on the correctly
\* constructed witness; the other two variants fail on every witness.
C7_ExactlyOneNonInclusion ==
    /\ mk_key \notin TreeKeys(mk_tree) =>
          AcceptingVariants(mk_tree, mk_key) = {CorrectWitness(mk_tree, mk_key).kind}
    /\ mk_out.kind \in NonInclusionVariants =>
          (mk_out.res = "Ok" <=>
              [kind |-> mk_out.kind, i |-> mk_out.i, j |-> mk_out.j]
                  = CorrectWitness(mk_tree, mk_key))

C7_Witness ==
    /\ mk_out.kind = "NonInclusionProofInner"
    /\ mk_out.res = "Ok"
    /\ Len(mk_tree) = 3
    /\ mk_out.i = 2

----------------------------------------------------------------------------
(* The Update message and its wire form.                                   *)

\* canonical bank hash: H(parent_bankhash || account_delta_root || num_sigs || blockhash)
hashv(parent, delta_root, num_sigs, blockhash) ==
    <<0, 0>> \o parent \o delta_root \o <<num_sigs>> \o blockhash

\* the delta the peer proves against: two changed accounts
SampleTree == SortedTree({2, 4})

SampleRoot == account_delta_root_of(SampleTree)

\* the proofs the peer sends; the position in this table is the proof's wire form
SampleProofs ==
    << \* a valid inclusion proof
       InclusionProof(2, SampleTree[1], Proof(SampleTree, 1)),
       \* Scenario B: the record was altered after the proof was built
       InclusionProof(2, Data(2, StateHash + 1), Proof(SampleTree, 1)),
       \* Scenario C: right-boundary proof with a truncated leaf list
       NonInclusionProofRight(5, SampleTree[2], Proof(SampleTree, 2),
                              <<hash_leaf(SampleTree[2])>>) >>

\* the digests of the header fields; the position in this table is the wire form
DigestTable == << <<1>>, <<2>>, SampleRoot, hashv(<<1>>, SampleRoot, 3, <<2>>) >>

DigestOfCode(c) == IF c \in 1..Len(DigestTable) THEN DigestTable[c] ELSE <<c>>

CodeOfDigest(d) ==
    IF \E c \in 1..Len(DigestTable) : DigestTable[c] = d
    THEN CHOOSE c \in 1..Len(DigestTable) : DigestTable[c] = d
    ELSE d[1]

CodeOfProof(ap) == CHOOSE c \in 1..Len(SampleProofs) : SampleProofs[c] = ap

\* struct Update { slot, root, proof: BankHashProof { proofs, num_sigs,
\*                 account_delta_root, parent_bankhash, blockhash } }
Update(slot, root, proofs, num_sigs, delta_root, parent, blockhash) ==
    [slot |-> slot, root |-> root, proofs |-> proofs, num_sigs |-> num_sigs,
     account_delta_root |-> delta_root, parent_bankhash |-> parent,
     blockhash |-> blockhash]

\* received_update before the first successful decode
NoUpdate == Update(0, <<>>, <<>>, 0, <<>>, <<>>, <<>>)

\* borsh serialization: fields in declaration order, a Vec as its length
\* followed by its items
Encode(u) ==
    <<u.slot, CodeOfDigest(u.root), Len(u.proofs)>>
    \o [i \in 1..Len(u.proofs) |-> CodeOfProof(u.proofs[i])]
    \o <<u.num_sigs, CodeOfDigest(u.account_delta_root),
         CodeOfDigest(u.parent_bankhash), CodeOfDigest(u.blockhash)>>

\* number of bytes the deserializer reads from b: 0 when b ends before the
\* value is complete or holds an unknown enum discriminant
DecodedLen(b) ==
    IF Len(b) < 3 THEN 0
    ELSE LET n == b[3]
         IN IF Len(b) < 3 + n + 4 THEN 0
            ELSE IF \E i \in 1..n : b[3 + i] \notin 1..Len(SampleProofs) THEN 0
            ELSE 3 + n + 4

\* the Update deserialized from the first DecodedLen(b) bytes of b
DecodedUpdate(b) ==
    LET n == b[3]
    IN Update(b[1], DigestOfCode(b[2]),
              [i \in 1..n |-> SampleProofs[b[3 + i]]],
              b[3 + n + 1], DigestOfCode(b[3 + n + 2]),
              DigestOfCode(b[3 + n + 3]), DigestOfCode(b[3 + n + 4]))

\* a deserializer that ignores bytes left over after the value
try_from_slice_lenient(b) == DecodedLen(b) > 0

\* Update::try_from_slice(&buffer[..n]): an error unless the value is complete
\* and no byte of the slice is left over
try_from_slice_ok(b) == DecodedLen(b) > 0 /\ DecodedLen(b) = Len(b)

\* verify_leaves_against_bankhash(p, bankhash, num_sigs, account_delta_root,
\*                                parent_bankhash, blockhash)
verify_leaves_against_bankhash(ap, bankhash, num_sigs, delta_root, parent, blockhash) ==
    LET r == verify_leaves(ap, delta_root)
    IN IF r # "Ok" THEN r
       ELSE IF bankhash # hashv(parent, delta_root, num_sigs, blockhash)
       THEN "BankHashMismatch"
       ELSE "Ok"

\* the outcome of the i-th proof of Update u
OutcomeOf(u, i) ==
    verify_leaves_against_bankhash(u.proofs[i], u.root, u.num_sigs,
                                   u.account_delta_root, u.parent_bankhash, u.blockhash)

----------------------------------------------------------------------------
(* Specification Spec: main of simple_tcp_client.rs and its peer.          *)

\* let mut buffer = vec![0u8; 65536]
BufLen == 65536

\* the Updates the peer sends: slot 1, Scenario A's shared fields, a root that
\* is the bank hash or is not, and up to MaxProofs proofs
Batches == UNION {[1..n -> {SampleProofs[c] : c \in 1..Len(SampleProofs)}] : n \in 0..MaxProofs}

SendableUpdates ==
    {Update(1, root, proofs, 3, SampleRoot, <<1>>, <<2>>) :
        root \in {hashv(<<1>>, SampleRoot, 3, <<2>>), <<1>>}, proofs \in Batches}

\* message lengths left in the socket after n bytes are read
RECURSIVE LensAfter(_, _)
LensAfter(lens, n) ==
    IF n = 0 \/ lens = <<>> THEN lens
    ELSE IF n >= lens[1] THEN LensAfter(Tail(lens), n - lens[1])
    ELSE <<lens[1] - n>> \o Tail(lens)

\* whether the first message left in the socket has been read in part
RECURSIVE MidAfter(_, _, _)
MidAfter(lens, mid, n) ==
    IF n = 0 THEN mid
    ELSE IF lens = <<>> THEN FALSE
    ELSE IF n >= lens[1] THEN MidAfter(Tail(lens), FALSE, n - lens[1])
    ELSE TRUE

TcpInit ==
    /\ wire = <<>> /\ wireLens = <<>> /\ midMsg = FALSE /\ closed = FALSE
    /\ chunk = <<>> /\ lastWhole = FALSE /\ anyFailed = FALSE
    /\ pc = "read" /\ cur = NoUpdate /\ idx = 1 /\ out = <<>>
    /\ bankhash_checks = 0 /\ exit = "running"
    /\ mk_tree = <<>> /\ mk_key = 0 /\ mk_out = MkIdle
    /\ DbIdle /\ CsIdle

\* the peer writes one serialized Update to the socket
Send ==
    /\ exit = "running" /\ ~closed
    /\ \E u \in SendableUpdates :
          /\ Len(wire) + Len(Encode(u)) <= MaxWire
          /\ wire' = wire \o Encode(u)
          /\ wireLens' = Append(wireLens, Len(Encode(u)))
    /\ UNCHANGED <<midMsg, closed, chunk, lastWhole, anyFailed, pc, cur, idx, out,
                   bankhash_checks, exit, mkVars, dbVars, csVars>>

\* the peer closes the connection
Close ==
    /\ exit = "running" /\ ~closed
    /\ closed' = TRUE
    /\ UNCHANGED <<wire, wireLens, midMsg, chunk, lastWhole, anyFailed, pc, cur, idx,
                   out, bankhash_checks, exit, mkVars, dbVars, csVars>>

\* a loop that stops at the first failing proof
LoopAfterBreak(r, i, n) == IF r = "Ok" /\ i < n THEN "verify" ELSE "read"

\* a loop that propagates the first verification error with ?
LoopAfterAbort(r, i, n) == IF r # "Ok" THEN "exit" ELSE IF i < n THEN "verify" ELSE "read"

\* where the for loop goes after the i-th of n proofs was verified with result r:
\* an Err is printed and the loop continues
LoopAfter(r, i, n) == IF i < n THEN "verify" ELSE "read"

\* result of main when the for loop moves to position p
ResultAfter(p) == IF p = "exit" THEN "ErrVerify" ELSE "running"

\* a client that checks the bank hash with the first proof of an Update only
ChecksAfterOncePerUpdate(k) == IF k = 0 THEN 1 ELSE k

\* calls that were handed the bank-hash inputs, after one more proof is verified
ChecksAfter(k) == k + 1

\* a main that reports failed proofs in its own result
ResultOnCloseAggregated(failed) == IF failed THEN "ErrVerify" ELSE "Ok"

\* result of main when read returns 0: break, then Ok(())
ResultOnClose(failed) == "Ok"

\* stream.read(&mut buffer) returns n > 0 bytes and the slice is deserialized
Read ==
    /\ pc = "read" /\ exit = "running" /\ wire # <<>>
    /\ \E n \in 1..Min(Len(wire), BufLen) :
        LET b == SubSeq(wire, 1, n)
        IN /\ chunk' = b
           /\ wire' = SubSeq(wire, n + 1, Len(wire))
           /\ wireLens' = LensAfter(wireLens, n)
           /\ lastWhole' = (~midMsg /\ n = wireLens[1])
           /\ midMsg' = MidAfter(wireLens, midMsg, n)
           /\ IF try_from_slice_ok(b)
              THEN /\ cur' = DecodedUpdate(b)
                   /\ idx' = 1
                   /\ out' = <<>>
                   /\ bankhash_checks' = 0
                   /\ pc' = IF Len(cur'.proofs) = 0 THEN "read" ELSE "verify"
                   /\ exit' = exit
              ELSE /\ pc' = "exit"
                   /\ exit' = "ErrDecode"
                   /\ UNCHANGED <<cur, idx, out, bankhash_checks>>
    /\ UNCHANGED <<closed, anyFailed, mkVars, dbVars, csVars>>

\* stream.read returns 0: the connection is closed, main returns
ReadEof ==
    /\ pc = "read" /\ exit = "running" /\ wire = <<>> /\ closed
    /\ pc' = "exit"
    /\ exit' = ResultOnClose(anyFailed)
    /\ UNCHANGED <<wire, wireLens, midMsg, closed, chunk, lastWhole, anyFailed, cur, idx,
                   out, bankhash_checks, mkVars, dbVars, csVars>>

\* stream.read fails: main returns the error
ReadError ==
    /\ pc = "read" /\ exit = "running"
    /\ pc' = "exit"
    /\ exit' = "ErrIo"
    /\ UNCHANGED <<wire, wireLens, midMsg, closed, chunk, lastWhole, anyFailed, cur, idx,
                   out, bankhash_checks, mkVars, dbVars, csVars>>

\* one iteration of the for loop: the next proof is verified and its outcome printed
VerifyProof ==
    /\ pc = "verify" /\ exit = "running"
    /\ LET r == OutcomeOf(cur, idx)
       IN /\ out' = Append(out, r)
          /\ anyFailed' = (anyFailed \/ r # "Ok")
          /\ bankhash_checks' = ChecksAfter(bankhash_checks)
          /\ idx' = idx + 1
          /\ pc' = LoopAfter(r, idx, Len(cur.proofs))
          /\ exit' = ResultAfter(pc')
    /\ UNCHANGED <<wire, wireLens, midMsg, closed, chunk, lastWhole, cur,
                   mkVars, dbVars, csVars>>

Next == Send \/ Close \/ Read \/ ReadEof \/ ReadError \/ VerifyProof

Spec == TcpInit /\ [][Next]_vars

\* C1: an Update whose batch holds n proofs gets exactly n outcomes, the i-th
\* being the outcome of its i-th proof; a failing proof does not stop the
\* proofs after it from being verified.
C1_OutcomePerProofInOrder ==
    /\ \A i \in 1..Len(out) : i <= Len(cur.proofs) /\ out[i] = OutcomeOf(cur, i)
    /\ (pc = "verify" => Len(out) = idx - 1 /\ idx <= Len(cur.proofs))
    /\ (pc # "verify" => Len(out) = Len(cur.proofs))

C1_Witness ==
    /\ pc = "read"
    /\ Len(cur.proofs) = 2
    /\ Len(out) = 2
    /\ out[1] # "Ok"
    /\ out[2] = "Ok"

C4_FailureDoesNotAbort ==
    [][(pc = "verify" /\ OutcomeOf(cur, idx) # "Ok" /\ out' # out) =>
          /\ out' = Append(out, OutcomeOf(cur, idx))
          /\ exit' = "running"
          /\ pc' = (IF idx < Len(cur.proofs) THEN "verify" ELSE "read")]_vars

\* a later Update is being verified after a proof of an earlier one failed
C4_Witness ==
    /\ anyFailed
    /\ pc = "verify"
    /\ out = <<>>
    /\ exit = "running"

\* C5: the verifier only runs on an Update decoded from exactly one whole
\* message, however the byte stream is split across reads.
C5_OnlyWholeMessagesVerified ==
    pc = "verify" => (lastWhole /\ chunk = Encode(cur))

\* a read returned a whole message followed by bytes of the next one
C5_Witness ==
    /\ exit = "ErrDecode"
    /\ ~lastWhole
    /\ try_from_slice_lenient(chunk)
    /\ Len(chunk) > DecodedLen(chunk)

\* a read returned only part of a message
C5_WitnessPartial ==
    /\ exit = "ErrDecode"
    /\ ~lastWhole
    /\ midMsg

----------------------------------------------------------------------------
(* Specification SpecDb: WhereClausesBuilder and the chain-head table of   *)
(* db.rs.                                                                  *)

\* the conditions the read operations push
Conditions == {"id = ", "tx_hash = ", "blob->>'hash' = "}

\* the chain-head blobs the indexer stores
Blobs == {"head_a", "head_b"}

\* Option<Value>
None == <<>>
Some(v) == <<v>>

DbInit ==
    /\ query = <<"SELECT">> /\ where_used_already = FALSE /\ conds = <<>>
    /\ rows = <<>> /\ inserted = <<>> /\ head_result = [n |-> 0, value |-> None]
    /\ TcpIdle /\ CsIdle
    /\ mk_tree = <<>> /\ mk_key = 0 /\ mk_out = MkIdle

\* WhereClausesBuilder::new
NewBuilder ==
    /\ query' = <<"SELECT">>
    /\ where_used_already' = FALSE
    /\ conds' = <<>>
    /\ UNCHANGED <<rows, inserted, head_result, tcpVars, mkVars, csVars>>

\* a builder that never looks at where_used_already
ConditionKeywordAlwaysWhere(used) == " WHERE "

\* the keyword push_condition puts before the condition
ConditionKeyword(used) == IF used THEN " AND " ELSE " WHERE "

\* WhereClausesBuilder::push_condition
push_condition ==
    /\ Len(query) + 2 <= MaxQueryLen
    /\ \E condition \in Conditions :
          /\ query' = query \o <<ConditionKeyword(where_used_already), condition>>
          /\ conds' = Append(conds, condition)
    /\ where_used_already' = TRUE
    /\ UNCHANGED <<rows, inserted, head_result, tcpVars, mkVars, csVars>>

\* QueryBuilder::push_bind on the wrapped query
push_bind ==
    /\ Len(query) + 1 <= MaxQueryLen
    /\ query' = Append(query, "$")
    /\ UNCHANGED <<where_used_already, conds, rows, inserted, head_result,
                   tcpVars, mkVars, csVars>>

\* WhereClausesBuilder::order_by
order_by ==
    /\ Len(query) + 4 <= MaxQueryLen
    /\ \E order \in {"ASC", "DESC"} :
          query' = query \o <<" ORDER BY ", "id", " ", order>>
    /\ UNCHANGED <<where_used_already, conds, rows, inserted, head_result,
                   tcpVars, mkVars, csVars>>

\* WhereClausesBuilder::pagination
pagination ==
    /\ Len(query) + 2 <= MaxQueryLen
    /\ query' = query \o <<" LIMIT ", "size">>
    /\ UNCHANGED <<where_used_already, conds, rows, inserted, head_result,
                   tcpVars, mkVars, csVars>>

\* the id the table gives a new row: a serial column
NextRowId(rs) == Len(rs) + 1

\* Db::insert_chain_head
insert_chain_head ==
    /\ Len(rows) < MaxRows
    /\ \E blob \in Blobs :
          /\ rows' = Append(rows, [id |-> NextRowId(rows), chain_head_blob |-> blob])
          /\ inserted' = Append(inserted, blob)
    /\ UNCHANGED <<query, where_used_already, conds, head_result, tcpVars, mkVars, csVars>>

\* the query with ORDER BY id ASC
SelectChainHeadAscending(rs) ==
    IF rs = <<>> THEN None
    ELSE LET r == CHOOSE r \in {rs[i] : i \in 1..Len(rs)} :
                      \A i \in 1..Len(rs) : r.id <= rs[i].id
         IN Some(r.chain_head_blob)

\* SELECT chain_head_blob FROM indexing_status ORDER BY id DESC LIMIT 1
SelectChainHead(rs) ==
    IF rs = <<>> THEN None
    ELSE LET r == CHOOSE r \in {rs[i] : i \in 1..Len(rs)} :
                      \A i \in 1..Len(rs) : r.id >= rs[i].id
         IN Some(r.chain_head_blob)

\* Db::chain_head
chain_head ==
    /\ head_result' = [n |-> Len(inserted), value |-> SelectChainHead(rows)]
    /\ UNCHANGED <<query, where_used_already, conds, rows, inserted, tcpVars, mkVars, csVars>>

DbNext ==
    \/ NewBuilder \/ push_condition \/ push_bind \/ order_by \/ pagination
    \/ insert_chain_head \/ chain_head

SpecDb == DbInit /\ [][DbNext]_vars

IsClauseToken(t) == t \in {" WHERE ", " AND "} \cup Conditions

RECURSIVE ExpectedClauses(_)
ExpectedClauses(cs) ==
    IF cs = <<>> THEN <<>>
    ELSE IF Len(cs) = 1 THEN <<" WHERE ", cs[1]>>
    ELSE ExpectedClauses(SubSeq(cs, 1, Len(cs) - 1)) \o <<" AND ", Last(cs)>>

\* C8: after k push_condition calls on a fresh builder the pushed text holds
\* " WHERE " once, right before the first condition, and " AND " right before
\* each of the other k-1 conditions, and neither when k = 0;
\* where_used_already is true exactly when a condition has been pushed.
C8_WhereOnceThenAnd ==
    /\ SelectSeq(query, IsClauseToken) = ExpectedClauses(conds)
    /\ \A i \in 1..Len(query) :
          query[i] \in {" WHERE ", " AND "} => (i < Len(query) /\ query[i + 1] \in Conditions)
    /\ (where_used_already <=> Len(conds) >= 1)

C8_Witness ==
    /\ Len(conds) = 3
    /\ where_used_already
    /\ query[2] = " WHERE "
    /\ query[6] = " AND "

\* C9: chain_head returns the blob of the most recent insert_chain_head call,
\* and None when no chain head was ever inserted.
C9_ChainHeadIsLatest ==
    head_result.value =
        (IF head_result.n = 0 THEN None ELSE Some(inserted[head_result.n]))

C9_Witness ==
    /\ head_result.n = 3
    /\ inserted[1] # inserted[3]
    /\ head_result.value = Some(inserted[3])

----------------------------------------------------------------------------
(* Specification SpecChain: the slot-height counter of call.rs.            *)

Transitions == {"t1", "t2"}

NoTransition == "none"

ChainInit ==
    /\ slot_height \in {<<>>} \cup {<<h>> : h \in 0..MaxGenesis}
    /\ h0 = slot_height
    /\ historical_transitions = [h \in 0..MaxStoreHeight |-> NoTransition]
    /\ nInc = 0
    /\ panicked = FALSE
    /\ TcpIdle /\ DbIdle
    /\ mk_tree = <<>> /\ mk_key = 0 /\ mk_out = MkIdle

\* an increment that takes an unset height as 0 instead of panicking
IncrementedFromZeroWhenUnset(cur_h) == IF cur_h = <<>> THEN <<1>> ELSE <<cur_h[1] + 1>>

\* the value increment_slot_height stores for the current value cur_h; <<>>
\* when get() returns None and expect() panics
Incremented(cur_h) == IF cur_h = <<>> THEN <<>> ELSE <<cur_h[1] + 1>>

\* ChainState::increment_slot_height
increment_slot_height ==
    /\ ~panicked
    /\ nInc < MaxInc
    /\ IF Incremented(slot_height) = <<>>
       THEN \* .expect("Block height must be initialized") panics
            /\ panicked' = TRUE
            /\ UNCHANGED <<slot_height, nInc>>
       ELSE /\ slot_height' = Incremented(slot_height)
            /\ nInc' = nInc + 1
            /\ UNCHANGED panicked
    /\ UNCHANGED <<historical_transitions, h0, tcpVars, mkVars, dbVars>>

\* ChainState::store_state_transition
store_state_transition ==
    /\ ~panicked
    /\ \E height \in 0..MaxStoreHeight, transition \in Transitions :
          historical_transitions' = [historical_transitions EXCEPT ![height] = transition]
    /\ UNCHANGED <<slot_height, h0, nInc, panicked, tcpVars, mkVars, dbVars>>

ChainNext == increment_slot_height \/ store_state_transition

SpecChain == ChainInit /\ [][ChainNext]_vars

\* C10: from an initialized height h, after n increment_slot_height calls and
\* any number of store_state_transition calls the stored height is h + n;
\* on an uninitialized height increment_slot_height panics and sets nothing.
C10_HeightIsGenesisPlusIncrements ==
    /\ (h0 # <<>> => slot_height = <<h0[1] + nInc>> /\ ~panicked)
    /\ (h0 = <<>> => slot_height = <<>> /\ nInc = 0)

C10_Witness ==
    /\ h0 # <<>>
    /\ nInc = 2
    /\ slot_height = <<h0[1] + 2>>
    /\ \E h \in 0..MaxStoreHeight : historical_transitions[h] # NoTransition

C10_WitnessPanic ==
    /\ panicked
    /\ slot_height = <<>>
    /\ \E h \in 0..MaxStoreHeight : historical_transitions[h] # NoTransition

====
